---- MODULE Spec2Model ----
(***************************************************************************)
(* Model of the nonogram generator component (src/src/App.tsx): the React  *)
(* state of App, its event handlers and asynchronous callbacks, and the    *)
(* pure computations they call (run-length clues, brightness threshold,    *)
(* fit-to-box scaling, grid assembly).                                     *)
(***************************************************************************)
EXTENDS Integers, Sequences, FiniteSets, TLC

VARIABLES
  image,          \* useState image: "null" or the id of the uploaded file's data URL
  columns,        \* useState columns
  rows,           \* useState rows
  nonogramGrid,   \* useState nonogramGrid: sequence of rows of cells
  rowNumbers,     \* useState rowNumbers
  columnNumbers,  \* useState columnNumbers
  readers,        \* FileReaders whose onload has not fired yet (in start order)
  loads,          \* Image elements whose onload has not fired yet (in start order)
  events,         \* number of user events so far (bounded by MaxEvents)
  call,           \* harness: the pure function under test and its arguments
  ret             \* harness: its result

vars == <<image, columns, rows, nonogramGrid, rowNumbers, columnNumbers,
          readers, loads, events, call, ret>>

compVars == <<image, columns, rows, nonogramGrid, rowNumbers, columnNumbers,
              readers, loads, events>>

(***************************************************************************)
(* Bounds of the model.                                                    *)
(***************************************************************************)
MaxGridRows == 2      \* harness grids have 1..MaxGridRows rows
MaxGridCols == 4      \* harness grids have 1..MaxGridCols columns

(***************************************************************************)
(* Cells.  color is the sampled RGB triple (the code formats it as the     *)
(* string "rgb(r, g, b)"; the triple is kept).                             *)
(***************************************************************************)
Cell(f, c) == [filled |-> f, color |-> c]

Black == <<0, 0, 0>>
White == <<255, 255, 255>>

(***************************************************************************)
(* Faulty variants of the clue scan, kept to show that the clue properties *)
(* tell them from the code's scan.  ScanRowNoFlush forgets the run that    *)
(* ends at the last cell; ScanColTwice emits that run a second time after  *)
(* the loop; RowNumsNoZero returns an empty clue for a line without a run. *)
(***************************************************************************)
RECURSIVE ScanRowNoFlush(_, _, _, _)
ScanRowNoFlush(row, index, numbers, currentCount) ==
  IF index > Len(row) THEN numbers
  ELSE IF row[index].filled
       THEN ScanRowNoFlush(row, index + 1, numbers, currentCount + 1)
       ELSE IF currentCount > 0
            THEN ScanRowNoFlush(row, index + 1, Append(numbers, currentCount), 0)
            ELSE ScanRowNoFlush(row, index + 1, numbers, currentCount)

RECURSIVE ScanColTwice(_, _, _, _, _)
ScanColTwice(grid, colIndex, rowIndex, numbers, currentCount) ==
  IF rowIndex > Len(grid)
  THEN IF currentCount > 0 THEN Append(numbers, currentCount) ELSE numbers
  ELSE IF grid[rowIndex][colIndex].filled
       THEN IF rowIndex = Len(grid)
            THEN ScanColTwice(grid, colIndex, rowIndex + 1, Append(numbers, currentCount + 1), currentCount + 1)
            ELSE ScanColTwice(grid, colIndex, rowIndex + 1, numbers, currentCount + 1)
       ELSE IF currentCount > 0
            THEN ScanColTwice(grid, colIndex, rowIndex + 1, Append(numbers, currentCount), 0)
            ELSE ScanColTwice(grid, colIndex, rowIndex + 1, numbers, currentCount)

(***************************************************************************)
(* calculateNumbers, rows: row.forEach((cell, index) => ...) with the      *)
(* accumulator (numbers, currentCount).  Indices are 1-based here, so the  *)
(* code's index === row.length - 1 is index = Len(row).                    *)
(***************************************************************************)
RECURSIVE ScanRow(_, _, _, _)
ScanRow(row, index, numbers, currentCount) ==
  IF index > Len(row) THEN numbers
  ELSE IF row[index].filled
       THEN IF index = Len(row)
            THEN ScanRow(row, index + 1, Append(numbers, currentCount + 1), currentCount + 1)
            ELSE ScanRow(row, index + 1, numbers, currentCount + 1)
       ELSE IF currentCount > 0
            THEN ScanRow(row, index + 1, Append(numbers, currentCount), 0)
            ELSE ScanRow(row, index + 1, numbers, currentCount)

RowNumsNoZero(grid) == [y \in 1..Len(grid) |-> ScanRow(grid[y], 1, << >>, 0)]

\* grid.map(row => { ...; return numbers.length ? numbers : [0]; })
RowNums(grid) ==
  [y \in 1..Len(grid) |->
     LET numbers == ScanRow(grid[y], 1, << >>, 0)
     IN  IF Len(numbers) # 0 THEN numbers ELSE <<0>>]

(***************************************************************************)
(* calculateNumbers, columns: grid.forEach((row, rowIndex) => ...) reading *)
(* row[colIndex].filled.                                                   *)
(***************************************************************************)
RECURSIVE ScanCol(_, _, _, _, _)
ScanCol(grid, colIndex, rowIndex, numbers, currentCount) ==
  IF rowIndex > Len(grid) THEN numbers
  ELSE IF grid[rowIndex][colIndex].filled
       THEN IF rowIndex = Len(grid)
            THEN ScanCol(grid, colIndex, rowIndex + 1, Append(numbers, currentCount + 1), currentCount + 1)
            ELSE ScanCol(grid, colIndex, rowIndex + 1, numbers, currentCount + 1)
       ELSE IF currentCount > 0
            THEN ScanCol(grid, colIndex, rowIndex + 1, Append(numbers, currentCount), 0)
            ELSE ScanCol(grid, colIndex, rowIndex + 1, numbers, currentCount)

\* Array(grid[0].length).fill(0).map((_, colIndex) => ...): grid[0] must exist.
ColNums(grid) ==
  [x \in 1..Len(grid[1]) |->
     LET numbers == ScanCol(grid, x, 1, << >>, 0)
     IN  IF Len(numbers) # 0 THEN numbers ELSE <<0>>]

\* calculateNumbers(grid): the two values handed to setRowNumbers / setColumnNumbers.
\* grid[0].length throws a TypeError on an empty grid: thrown = TRUE, nothing is set.
calculateNumbers(grid) ==
  IF Len(grid) = 0
  THEN [thrown |-> TRUE, rowNums |-> <<>>, colNums |-> <<>>]
  ELSE [thrown |-> FALSE, rowNums |-> RowNums(grid), colNums |-> ColNums(grid)]

(***************************************************************************)
(* Decoded images.  An uploaded file is known by its id; Width/Height are  *)
(* img.width / img.height and Pixel the decoded RGB sample at (x, y),      *)
(* 0-based.  "dot" is a black 1x1 image, "blank" a white 1x1 image,        *)
(* "halves" a 2x1 image black|white, "tower" a 1x4 image                   *)
(* black/white/black/black, "strip" a 16x1 image whose even pixels are     *)
(* black.  All widths are powers of two, so img.height / img.width and its *)
(* product with columns are exact in double precision.                     *)
(***************************************************************************)
Files == {"dot", "blank", "halves", "tower", "strip"}

Width(img) ==
  CASE img = "halves" -> 2
    [] img = "strip"  -> 16
    [] OTHER          -> 1

Height(img) ==
  CASE img = "tower" -> 4
    [] OTHER         -> 1

Pixel(img, x, y) ==
  CASE img = "dot"    -> Black
    [] img = "blank"  -> White
    [] img = "halves" -> IF x = 0 THEN Black ELSE White
    [] img = "tower"  -> IF y = 1 THEN White ELSE Black
    [] img = "strip"  -> IF x % 2 = 0 THEN Black ELSE White

(***************************************************************************)
(* The hidden canvas after fillRect(white) and drawImage(img, x, y,        *)
(* scaledWidth, scaledHeight), read back by getImageData.  The scale is    *)
(* min(columns / width, rows / height), kept here as the exact fraction    *)
(* sNum / sDen; the destination rectangle is centred.  The browser's       *)
(* resampling filter is not part of the source: a canvas pixel whose       *)
(* centre lies inside the destination rectangle takes the source pixel     *)
(* under it, any other pixel keeps the white background.                   *)
(***************************************************************************)
ScaleByWidth(img, c, r) == c * Height(img) <= r * Width(img)

CanvasPixel(img, c, r, x, y) ==
  LET w    == Width(img)
      h    == Height(img)
      sNum == IF ScaleByWidth(img, c, r) THEN c ELSE r
      sDen == IF ScaleByWidth(img, c, r) THEN w ELSE h
      \* 2 * sDen * (pixel centre - offset), per axis
      ax   == (2 * x + 1) * sDen - c * sDen + w * sNum
      ay   == (2 * y + 1) * sDen - r * sDen + h * sNum
  IN  IF /\ sNum > 0
         /\ 0 <= ax /\ ax < 2 * w * sNum
         /\ 0 <= ay /\ ay < 2 * h * sNum
      THEN Pixel(img, ax \div (2 * sNum), ay \div (2 * sNum))
      ELSE White

\* ctx.getImageData(0, 0, columns, rows).data: the flat RGBA array, 0-based.
ImageData(img, c, r) ==
  [i \in 0..(4 * c * r - 1) |->
     LET p == i \div 4
         k == i % 4
     IN  IF k = 3 THEN 255 ELSE CanvasPixel(img, c, r, p % c, p \div c)[k + 1]]

\* getImageData throws IndexSizeError when the requested width or height is 0.
GetImageDataThrows(c, r) == c = 0 \/ r = 0

(***************************************************************************)
(* One cell from its three sampled channels.  brightness is the exact      *)
(* quotient (d0 + d1 + d2) / 3, kept as a fraction; brightness < 128       *)
(* compares it with 128 (the quotient of integers below 766 by 3 is        *)
(* rounded in double precision to a value on the same side of 128).        *)
(***************************************************************************)
\* Faulty variants: a threshold that includes the limit, and a column-mirrored
\* sample index.
BrightnessAtMost(b, limit) == b.num <= limit * b.den

CellIndexMirrored(x, y, c) == (y * c + (c - 1 - x)) * 4

Brightness(d0, d1, d2) == [num |-> d0 + d1 + d2, den |-> 3]

BrightnessBelow(b, limit) == b.num < limit * b.den

MakeCell(d0, d1, d2) ==
  Cell(BrightnessBelow(Brightness(d0, d1, d2), 128), <<d0, d1, d2>>)

\* for (y...) for (x...) { const i = (y * columns + x) * 4; ... }
CellIndex(x, y, c) == (y * c + x) * 4

\* The loops for (y...) { row = []; for (x...) row.push({...}); grid.push(row) }:
\* cell x of row y is made from the three channels at index i.  (Concatenating
\* the empty sequence makes TLC store the rows as sequences.)
BuildRow(data, c, y) ==
  [x \in 1..c |->
     LET i == CellIndex(x - 1, y, c)
     IN  MakeCell(data[i], data[i + 1], data[i + 2])] \o << >>

BuildGrid(data, c, r) == [y \in 1..r |-> BuildRow(data, c, y - 1)] \o << >>

(***************************************************************************)
(* parseInt(e.target.value): an optional sign, then the leading decimal    *)
(* digits; NaN when there is none.  Texts are sequences of characters.     *)
(***************************************************************************)
DigitValue ==
  ("0" :> 0) @@ ("1" :> 1) @@ ("2" :> 2) @@ ("3" :> 3) @@ ("4" :> 4) @@
  ("5" :> 5) @@ ("6" :> 6) @@ ("7" :> 7) @@ ("8" :> 8) @@ ("9" :> 9)

RECURSIVE ParseDigits(_, _, _, _)
ParseDigits(text, i, acc, seen) ==
  IF i <= Len(text) /\ text[i] \in DOMAIN DigitValue
  THEN ParseDigits(text, i + 1, 10 * acc + DigitValue[text[i]], TRUE)
  ELSE [nan |-> ~seen, n |-> acc]

parseInt(text) ==
  IF Len(text) > 0 /\ text[1] = "-"
  THEN LET v == ParseDigits(text, 2, 0, FALSE) IN [nan |-> v.nan, n |-> 0 - v.n]
  ELSE IF Len(text) > 0 /\ text[1] = "+"
       THEN ParseDigits(text, 2, 0, FALSE)
       ELSE ParseDigits(text, 1, 0, FALSE)

\* What the user types into a dimension input.
InputTexts == { <<>>, <<"-", "3">>, <<"3">>, <<"5", "1">> }

Min(a, b) == IF a < b THEN a ELSE b
Max(a, b) == IF a > b THEN a ELSE b

\* Math.max(5, Math.min(50, value))
Clamp(value) == Max(5, Min(50, value))

\* Math.round(num / den) for num >= 0, den > 0: the nearest integer, halves up.
MathRound(num, den) == (2 * num + den) \div (2 * den)

\* The files the user uploads in the component's runs.
Uploads == {"halves", "strip"}

(***************************************************************************)
(* The grid that generateNonogram assembles from the canvas and the clues  *)
(* calculateNumbers derives from it depend only on the image and on the    *)
(* captured columns and rows.  They are tabulated once, for the values     *)
(* columns and rows take in the component's runs (f @@ f makes TLC store   *)
(* the table instead of recomputing an entry at every use).                *)
(***************************************************************************)
ColumnValues ==
  {15} \cup { Clamp(parseInt(t).n) : t \in { u \in InputTexts : ~parseInt(u).nan /\ parseInt(u).n > 0 } }

RowValues ==
  ColumnValues \cup { MathRound(c * Height(f), Width(f)) : c \in ColumnValues, f \in Uploads }

Quantized ==
  LET f == [a \in Uploads \X ColumnValues \X (RowValues \ {0}) |->
              LET grid == BuildGrid(ImageData(a[1], a[2], a[3]), a[2], a[3])
              IN  [grid |-> grid, nums |-> calculateNumbers(grid)]]
  IN  f @@ f

(***************************************************************************)
(* Double-precision arithmetic of the scale computation.  A natural number *)
(* of any size is a sequence of limbs in base 2^15, least significant      *)
(* first, without leading zero limbs (0 is the empty sequence).            *)
(***************************************************************************)
LimbBits == 15
LimbBase == 32768

RECURSIVE Pow2(_)
Pow2(k) == IF k = 0 THEN 1 ELSE 2 * Pow2(k - 1)

RECURSIVE BigFromInt(_)
BigFromInt(n) == IF n = 0 THEN << >> ELSE <<n % LimbBase>> \o BigFromInt(n \div LimbBase)

RECURSIVE BigTrim(_)
BigTrim(a) ==
  IF Len(a) > 0 /\ a[Len(a)] = 0 THEN BigTrim(SubSeq(a, 1, Len(a) - 1)) ELSE a

RECURSIVE BigMulCarry(_, _, _, _)
BigMulCarry(a, k, i, carry) ==
  IF i > Len(a) THEN BigFromInt(carry)
  ELSE LET t == a[i] * k + carry
       IN  <<t % LimbBase>> \o BigMulCarry(a, k, i + 1, t \div LimbBase)

\* a * k for 0 <= k < 2^15
BigMulSmall(a, k) == BigTrim(BigMulCarry(a, k, 1, 0))

\* floor(a / d) and a mod d for 0 < d < 2^15, from the most significant limb down
RECURSIVE BigDivStep(_, _, _, _, _)
BigDivStep(a, d, i, rem, q) ==
  IF i = 0 THEN [q |-> BigTrim(q), rem |-> rem]
  ELSE LET t == rem * LimbBase + a[i]
       IN  BigDivStep(a, d, i - 1, t % d, <<t \div d>> \o q)

BigDivSmall(a, d) == BigDivStep(a, d, Len(a), 0, << >>)

\* a * 2^bits
BigShl(a, bits) ==
  IF a = << >> THEN << >>
  ELSE [i \in 1..(bits \div LimbBits) |-> 0] \o BigMulSmall(a, Pow2(bits % LimbBits))

\* floor(a / 2^bits), and whether a nonzero remainder was dropped
BigShr(a, bits) ==
  LET drop    == Min(bits \div LimbBits, Len(a))
      kept    == SubSeq(a, drop + 1, Len(a))
      d       == BigDivSmall(kept, Pow2(bits % LimbBits))
      lostLow == \E i \in 1..drop : a[i] # 0
  IN  [q |-> d.q, sticky |-> lostLow \/ d.rem # 0]

RECURSIVE BigCmpFrom(_, _, _)
BigCmpFrom(a, b, i) ==
  IF i = 0 THEN 0
  ELSE IF a[i] < b[i] THEN -1
  ELSE IF a[i] > b[i] THEN 1
  ELSE BigCmpFrom(a, b, i - 1)

\* -1, 0 or 1 as a < b, a = b or a > b
BigCmp(a, b) ==
  IF Len(a) < Len(b) THEN -1
  ELSE IF Len(a) > Len(b) THEN 1
  ELSE BigCmpFrom(a, b, Len(a))

RECURSIVE BigAddCarry(_, _, _, _)
BigAddCarry(a, b, i, carry) ==
  IF i > Len(a) /\ i > Len(b) THEN BigFromInt(carry)
  ELSE LET t == (IF i <= Len(a) THEN a[i] ELSE 0) + (IF i <= Len(b) THEN b[i] ELSE 0) + carry
       IN  <<t % LimbBase>> \o BigAddCarry(a, b, i + 1, t \div LimbBase)

BigAdd(a, b) == BigTrim(BigAddCarry(a, b, 1, 0))

\* a - b for a >= b
RECURSIVE BigSubBorrow(_, _, _, _)
BigSubBorrow(a, b, i, borrow) ==
  IF i > Len(a) THEN << >>
  ELSE LET t == a[i] - (IF i <= Len(b) THEN b[i] ELSE 0) - borrow
       IN  IF t < 0 THEN <<t + LimbBase>> \o BigSubBorrow(a, b, i + 1, 1)
           ELSE <<t>> \o BigSubBorrow(a, b, i + 1, 0)

BigSub(a, b) == BigTrim(BigSubBorrow(a, b, 1, 0))

RECURSIVE IntBitLen(_)
IntBitLen(n) == IF n = 0 THEN 0 ELSE 1 + IntBitLen(n \div 2)

BigBitLen(a) == IF a = << >> THEN 0 ELSE LimbBits * (Len(a) - 1) + IntBitLen(a[Len(a)])

BigIsOdd(a) == a # << >> /\ a[1] % 2 = 1

(***************************************************************************)
(* A double is [neg, m, e] with value (-1)^neg * m * 2^e, m < 2^53 (or     *)
(* m = 2^53, the same value as 2^52 * 2^(e+1)).  RoundToDouble rounds the  *)
(* real n * 2^e (plus a nonzero amount below the last bit of n when sticky)*)
(* to the nearest double, ties to even.  The values of the scale           *)
(* computation are far from the overflow and subnormal ranges.             *)
(***************************************************************************)
MantissaBits == 53

Double(neg, m, e) == [neg |-> neg, m |-> m, e |-> e]

RoundToDouble(neg, n, e, sticky) ==
  LET len == BigBitLen(n)
  IN  IF len <= MantissaBits
      THEN Double(neg, n, e)
      ELSE LET sh    == len - MantissaBits
               top   == BigShr(n, sh - 1)   \* 54 bits: the mantissa and the round bit
               half  == BigIsOdd(top.q)
               below == top.sticky \/ sticky
               m0    == BigShr(top.q, 1).q
               up    == half /\ (below \/ BigIsOdd(m0))
           IN  Double(neg, IF up THEN BigAdd(m0, <<1>>) ELSE m0, e + sh)

\* An integer 0 <= n < 2^31 as a double (exact).
FromInt(n) == Double(FALSE, BigFromInt(n), 0)

\* a / b in double arithmetic for integers a >= 0, 0 < b < 2^12: the quotient
\* with 75 fraction bits and its remainder, rounded once.
DivBits == 75

DivInts(a, b) ==
  LET d == BigDivSmall(BigShl(BigFromInt(a), DivBits), b)
  IN  RoundToDouble(FALSE, d.q, 0 - DivBits, d.rem # 0)

\* k * x in double arithmetic for an integer 0 <= k < 2^15
MulInt(k, x) == RoundToDouble(x.neg, BigMulSmall(x.m, k), x.e, FALSE)

\* -1, 0 or 1 comparing two non-negative doubles
CmpDouble(x, y) ==
  LET lo == Min(x.e, y.e)
  IN  BigCmp(BigShl(x.m, x.e - lo), BigShl(y.m, y.e - lo))

\* Math.min of two non-negative doubles
\* Faulty variant: the larger of the two ratios (the image then covers the canvas).
MathMax(x, y) == IF CmpDouble(x, y) >= 0 THEN x ELSE y

MathMin(x, y) == IF CmpDouble(x, y) <= 0 THEN x ELSE y

\* (n - x) / 2 in double arithmetic for an integer n >= 0 and a double x >= 0:
\* the exact difference rounded once; halving is exact.
HalfDiff(n, x) ==
  LET lo   == Min(0, x.e)
      a    == BigShl(BigFromInt(n), 0 - lo)
      b    == BigShl(x.m, x.e - lo)
      diff == IF BigCmp(a, b) >= 0
              THEN RoundToDouble(FALSE, BigSub(a, b), lo, FALSE)
              ELSE RoundToDouble(TRUE, BigSub(b, a), lo, FALSE)
  IN  Double(diff.neg, diff.m, diff.e - 1)

(***************************************************************************)
(* The placement generateNonogram computes for an image of width w and     *)
(* height h on a canvas of c columns and r rows.                           *)
(***************************************************************************)
Placement(c, r, w, h) ==
  LET scale        == MathMin(DivInts(c, w), DivInts(r, h))
      scaledWidth  == MulInt(w, scale)
      scaledHeight == MulInt(h, scale)
  IN  [scale        |-> scale,
       scaledWidth  |-> scaledWidth,
       scaledHeight |-> scaledHeight,
       x            |-> HalfDiff(c, scaledWidth),
       y            |-> HalfDiff(r, scaledHeight)]

(***************************************************************************)
(* Faulty variants of generateNonogram: one never stores the grid, one     *)
(* stores the grid but leaves the clues of the previous grid in place.     *)
(***************************************************************************)
generateNonogramGridKept(img, c, r) ==
  [grid |-> nonogramGrid, rowNums |-> rowNumbers, colNums |-> columnNumbers]

generateNonogramCluesKept(img, c, r) ==
  IF GetImageDataThrows(c, r)
  THEN [grid |-> nonogramGrid, rowNums |-> rowNumbers, colNums |-> columnNumbers]
  ELSE [grid    |-> Quantized[<<img, c, r>>].grid,
        rowNums |-> rowNumbers,
        colNums |-> columnNumbers]

(***************************************************************************)
(* generateNonogram(imgElement) as called from a closure that captured     *)
(* columns = c and rows = r: the values handed to setNonogramGrid,         *)
(* setRowNumbers and setColumnNumbers.  When getImageData or               *)
(* calculateNumbers throws, the setters after the throw are not reached    *)
(* and the state they would have set keeps its value.                      *)
(***************************************************************************)
generateNonogram(img, c, r) ==
  IF GetImageDataThrows(c, r)
  THEN [grid |-> nonogramGrid, rowNums |-> rowNumbers, colNums |-> columnNumbers]
  ELSE LET grid == Quantized[<<img, c, r>>].grid
           nums == Quantized[<<img, c, r>>].nums
       IN  [grid    |-> grid,
            rowNums |-> IF nums.thrown THEN rowNumbers ELSE nums.rowNums,
            colNums |-> IF nums.thrown THEN columnNumbers ELSE nums.colNums]

(***************************************************************************)
(* The effect with dependencies [columns, rows, generateNonogram, image]:  *)
(* after a render in which one of them changed, and image is set, it       *)
(* creates an Image element whose onload calls the generateNonogram of     *)
(* that render.  The result is the loads it starts.                        *)
(***************************************************************************)
Load(kind, img, c, r, first) ==
  [kind |-> kind, img |-> img, columns |-> c, rows |-> r, firstUpload |-> first]

Effect(newImage, newColumns, newRows) ==
  IF <<newImage, newColumns, newRows>> # <<image, columns, rows>> /\ newImage # "null"
  THEN << Load("effect", newImage, newColumns, newRows, FALSE) >>
  ELSE << >>

Remove(seq, k) == SubSeq(seq, 1, k - 1) \o SubSeq(seq, k + 1, Len(seq))

MaxEvents == 2     \* user events (file selections, input changes) in one run

(***************************************************************************)
(* handleImageUpload: the user selects a file.  The reader's onload        *)
(* closure keeps the image, columns and generateNonogram (columns, rows)   *)
(* of the render the handler belongs to.                                   *)
(***************************************************************************)
HandleImageUpload(file) ==
  /\ events < MaxEvents
  /\ events' = events + 1
  /\ readers' = Append(readers, [file |-> file, image |-> image,
                                 columns |-> columns, rows |-> rows])
  /\ UNCHANGED <<image, columns, rows, nonogramGrid, rowNumbers, columnNumbers,
                 loads, call, ret>>

(***************************************************************************)
(* reader.onload of the k-th pending reader: img.src = result starts the   *)
(* load of the upload's Image element, setImage(result) re-renders and     *)
(* the effect starts a second load when the image changed.                 *)
(***************************************************************************)
ReaderOnload(k) ==
  /\ k \in 1..Len(readers)
  /\ LET rd == readers[k]
     IN  /\ image' = rd.file
         /\ loads' = Append(loads, Load("upload", rd.file, rd.columns, rd.rows,
                                        rd.image = "null"))
                     \o Effect(rd.file, columns, rows)
  /\ readers' = Remove(readers, k)
  /\ UNCHANGED <<columns, rows, nonogramGrid, rowNumbers, columnNumbers,
                 events, call, ret>>

(***************************************************************************)
(* img.onload of the k-th pending Image element.  An upload's element      *)
(* first sets rows from the aspect ratio when its closure saw no image,    *)
(* then calls the closure's generateNonogram; an effect's element calls    *)
(* the generateNonogram of its render.  The render that follows runs the   *)
(* effect when rows changed.                                               *)
(***************************************************************************)
ImgOnload(k) ==
  /\ k \in 1..Len(loads)
  /\ LET ld      == loads[k]
         newRows == IF ld.kind = "upload" /\ ld.firstUpload
                    THEN MathRound(ld.columns * Height(ld.img), Width(ld.img))
                    ELSE rows
         gen     == generateNonogram(ld.img, ld.columns, ld.rows)
     IN  /\ rows' = newRows
         /\ nonogramGrid' = gen.grid
         /\ rowNumbers' = gen.rowNums
         /\ columnNumbers' = gen.colNums
         /\ loads' = Remove(loads, k) \o Effect(image, columns, newRows)
  /\ UNCHANGED <<image, columns, readers, events, call, ret>>

(***************************************************************************)
(* onChange of the columns input and of the rows input.                    *)
(***************************************************************************)
ColumnsChange(text) ==
  /\ events < MaxEvents
  /\ events' = events + 1
  /\ LET value      == parseInt(text)
         newColumns == IF ~value.nan /\ value.n > 0 THEN Clamp(value.n) ELSE columns
     IN  /\ columns' = newColumns
         /\ loads' = loads \o Effect(image, newColumns, rows)
  /\ UNCHANGED <<image, rows, nonogramGrid, rowNumbers, columnNumbers,
                 readers, call, ret>>

RowsChange(text) ==
  /\ events < MaxEvents
  /\ events' = events + 1
  /\ LET value   == parseInt(text)
         newRows == IF ~value.nan /\ value.n > 0 THEN Clamp(value.n) ELSE rows
     IN  /\ rows' = newRows
         /\ loads' = loads \o Effect(image, columns, newRows)
  /\ UNCHANGED <<image, columns, nonogramGrid, rowNumbers, columnNumbers,
                 readers, call, ret>>

NoCall == [fn |-> "none"]
NoRet  == [done |-> FALSE]

Init ==
  /\ image = "null"
  /\ columns = 15
  /\ rows = 15
  /\ nonogramGrid = << >>
  /\ rowNumbers = << >>
  /\ columnNumbers = << >>
  /\ readers = << >>
  /\ loads = << >>
  /\ events = 0
  /\ call = NoCall
  /\ ret = NoRet

Next ==
  \/ \E file \in Uploads : HandleImageUpload(file)
  \/ \E k \in 1..Len(readers) : ReaderOnload(k)
  \/ \E k \in 1..Len(loads) : ImgOnload(k)
  \/ \E text \in InputTexts : ColumnsChange(text)
  \/ \E text \in InputTexts : RowsChange(text)

Spec == Init /\ [][Next]_vars

(***************************************************************************)
(* The pure computations on their own: the initial state draws one call    *)
(* (a function and its arguments) and the call's action stores the result. *)
(***************************************************************************)
Lines(n) == [1..n -> BOOLEAN]

\* The grid with the given filled flags (g[y][x]); filled cells black, the others white.
GridOfFlags(g) ==
  [y \in DOMAIN g |-> [x \in DOMAIN g[y] |-> Cell(g[y][x], IF g[y][x] THEN Black ELSE White)]]

\* Dimensions, image sizes and channel values the calls are drawn from.
GridDims      == {5, 7, 50}
PlaceDims     == {5, 6, 15, 50}
ImageSizes    == {1, 2, 3, 77, 147}
ChannelValues == {0, 127, 128, 129, 255}

\* calculateNumbers on every grid of 1..MaxGridRows rows and 1..MaxGridCols columns,
\* the grid assembly, one cell, and the placement.
IsCall(c) ==
  \/ \E r \in 1..MaxGridRows, n \in 1..MaxGridCols : \E g \in [1..r -> Lines(n)] :
       c = [fn |-> "calculateNumbers", grid |-> GridOfFlags(g)]
  \/ \E f \in Files, n \in GridDims, r \in GridDims :
       c = [fn |-> "buildGrid", img |-> f, columns |-> n, rows |-> r]
  \/ \E d0 \in ChannelValues, d1 \in ChannelValues, d2 \in ChannelValues :
       c = [fn |-> "makeCell", d0 |-> d0, d1 |-> d1, d2 |-> d2]
  \/ \E n \in PlaceDims, r \in PlaceDims, w \in ImageSizes, h \in ImageSizes :
       c = [fn |-> "placement", columns |-> n, rows |-> r, width |-> w, height |-> h]

CallCalculateNumbers ==
  /\ call.fn = "calculateNumbers" /\ ~ret.done
  /\ LET nums == calculateNumbers(call.grid)
     IN  ret' = [done |-> TRUE, rowNums |-> nums.rowNums, colNums |-> nums.colNums]
  /\ UNCHANGED <<compVars, call>>

CallBuildGrid ==
  /\ call.fn = "buildGrid" /\ ~ret.done
  /\ ret' = [done |-> TRUE,
             grid |-> BuildGrid(ImageData(call.img, call.columns, call.rows),
                                call.columns, call.rows)]
  /\ UNCHANGED <<compVars, call>>

CallMakeCell ==
  /\ call.fn = "makeCell" /\ ~ret.done
  /\ ret' = [done |-> TRUE, cell |-> MakeCell(call.d0, call.d1, call.d2)]
  /\ UNCHANGED <<compVars, call>>

CallPlacement ==
  /\ call.fn = "placement" /\ ~ret.done
  /\ ret' = [done |-> TRUE,
             placement |-> Placement(call.columns, call.rows, call.width, call.height)]
  /\ UNCHANGED <<compVars, call>>

InitCore ==
  /\ image = "null"
  /\ columns = 15
  /\ rows = 15
  /\ nonogramGrid = << >>
  /\ rowNumbers = << >>
  /\ columnNumbers = << >>
  /\ readers = << >>
  /\ loads = << >>
  /\ events = 0
  /\ IsCall(call)
  /\ ret = NoRet

NextCore ==
  \/ CallCalculateNumbers
  \/ CallBuildGrid
  \/ CallMakeCell
  \/ CallPlacement

SpecCore == InitCore /\ [][NextCore]_vars

(***************************************************************************)
(* Reference notions for the properties.                                   *)
(***************************************************************************)
\* The filled flags of row y (of length n) and of column x (of length n).
RowFills(grid, y) == [x \in 1..Len(grid[y]) |-> grid[y][x].filled] \o << >>
ColFills(grid, x) == [y \in 1..Len(grid) |-> grid[y][x].filled] \o << >>

GridWidth(grid) == IF Len(grid) = 0 THEN 0 ELSE Len(grid[1])

\* The length of the run of filled cells that starts at position i of a line of length n.
RECURSIVE RunFrom(_, _, _)
RunFrom(line, n, i) == IF i <= n /\ line[i] THEN 1 + RunFrom(line, n, i + 1) ELSE 0

\* The lengths of the maximal runs of filled cells from position i on, in reading order.
RECURSIVE RunsFrom(_, _, _)
RunsFrom(line, n, i) ==
  IF i > n THEN << >>
  ELSE IF line[i]
       THEN <<RunFrom(line, n, i)>> \o RunsFrom(line, n, i + RunFrom(line, n, i))
       ELSE RunsFrom(line, n, i + 1)

MaximalRuns(line, n) == RunsFrom(line, n, 1)

FilledCount(line, n) == Cardinality({i \in 1..n : line[i]})

RECURSIVE SumSeq(_)
SumSeq(q) == IF Len(q) = 0 THEN 0 ELSE q[1] + SumSeq(Tail(q))

CluesDone == ret.done /\ call.fn = "calculateNumbers"

(***************************************************************************)
(* C2: for every non-empty rectangular grid, the clue sequence that        *)
(* calculateNumbers yields for a row (a column) sums to the number of      *)
(* filled cells of that row (column); [0] contributes 0.                   *)
(***************************************************************************)
C2_ClueSumIsFilledCount ==
  CluesDone =>
    /\ \A y \in 1..Len(call.grid) :
         SumSeq(ret.rowNums[y]) = FilledCount(RowFills(call.grid, y), GridWidth(call.grid))
    /\ \A x \in 1..GridWidth(call.grid) :
         SumSeq(ret.colNums[x]) = FilledCount(ColFills(call.grid, x), Len(call.grid))

\* A 2x4 grid whose first row is filled in cells 1, 2 and 4 has been processed.
C2_Witness ==
  /\ CluesDone
  /\ Len(call.grid) = 2
  /\ RowFills(call.grid, 1) = <<TRUE, TRUE, FALSE, TRUE>>
  /\ SumSeq(ret.rowNums[1]) = 3
  /\ SumSeq(ret.colNums[3]) = FilledCount(ColFills(call.grid, 3), 2)

(***************************************************************************)
(* C3: for every line with at least one filled cell the clue sequence is   *)
(* exactly the list of lengths of its maximal runs of filled cells in      *)
(* reading order (rows left to right, columns top to bottom); a run that   *)
(* ends at the last cell is emitted exactly once.                          *)
(***************************************************************************)
C3_CluesAreMaximalRuns ==
  CluesDone =>
    /\ \A y \in 1..Len(call.grid) :
         LET line == RowFills(call.grid, y)
             n    == GridWidth(call.grid)
         IN  FilledCount(line, n) > 0 => ret.rowNums[y] = MaximalRuns(line, n)
    /\ \A x \in 1..GridWidth(call.grid) :
         LET line == ColFills(call.grid, x)
             n    == Len(call.grid)
         IN  FilledCount(line, n) > 0 => ret.colNums[x] = MaximalRuns(line, n)

\* The all-filled single row of length 4 gave the row clue [4] and four column clues [1].
C3_Witness ==
  /\ CluesDone
  /\ Len(call.grid) = 1
  /\ RowFills(call.grid, 1) = <<TRUE, TRUE, TRUE, TRUE>>
  /\ ret.rowNums = << <<4>> >>
  /\ ret.colNums = << <<1>>, <<1>>, <<1>>, <<1>> >>

(***************************************************************************)
(* C4: every clue sequence has at least one element; a line without a      *)
(* filled cell yields exactly [0]; a line with a filled cell yields        *)
(* positive integers only.                                                 *)
(***************************************************************************)
ClueShape(clue, line, n) ==
  /\ Len(clue) >= 1
  /\ FilledCount(line, n) = 0 => clue = <<0>>
  /\ clue # <<0>> => \A i \in 1..Len(clue) : clue[i] > 0
  /\ FilledCount(line, n) > 0 => \A i \in 1..Len(clue) : clue[i] > 0

C4_ClueNonEmptyZeroConvention ==
  CluesDone =>
    /\ \A y \in 1..Len(call.grid) :
         ClueShape(ret.rowNums[y], RowFills(call.grid, y), GridWidth(call.grid))
    /\ \A x \in 1..GridWidth(call.grid) :
         ClueShape(ret.colNums[x], ColFills(call.grid, x), Len(call.grid))

\* A grid with an all-unfilled first row and a filled cell in its second row.
C4_Witness ==
  /\ CluesDone
  /\ Len(call.grid) = 2
  /\ RowFills(call.grid, 1) = <<FALSE, FALSE, FALSE>>
  /\ RowFills(call.grid, 2) = <<FALSE, TRUE, FALSE>>
  /\ ret.rowNums = << <<0>>, <<1>> >>
  /\ ret.colNums = << <<0>>, <<1>>, <<0>> >>

(***************************************************************************)
(* C5: for columns and rows in [5, 50] and any image, the grid that        *)
(* generateNonogram builds has exactly `rows` rows of exactly `columns`    *)
(* cells, in row-major order: cell (x, y) holds the canvas sample (x, y),  *)
(* read from sample index y * columns + x.                                 *)
(***************************************************************************)
GridDone == ret.done /\ call.fn = "buildGrid"

C5_GridDimensionsRowMajor ==
  (GridDone /\ call.columns \in 5..50 /\ call.rows \in 5..50) =>
    /\ Len(ret.grid) = call.rows
    /\ \A y \in 1..Len(ret.grid) : Len(ret.grid[y]) = call.columns
    /\ \A y \in 0..(call.rows - 1) : \A x \in 0..(call.columns - 1) :
         LET data == ImageData(call.img, call.columns, call.rows)
             p    == y * call.columns + x
         IN  /\ ret.grid[y + 1][x + 1].color = <<data[4 * p], data[4 * p + 1], data[4 * p + 2]>>
             /\ ret.grid[y + 1][x + 1].color = CanvasPixel(call.img, call.columns, call.rows, x, y)

\* The 2x1 black|white image on a 7-column, 50-row canvas: a band of 4 rows
\* (23..26, 0-based) whose left part is black.
C5_Witness ==
  /\ GridDone
  /\ call.img = "halves" /\ call.columns = 7 /\ call.rows = 50
  /\ Len(ret.grid) = 50 /\ Len(ret.grid[50]) = 7
  /\ ret.grid[25][1].filled /\ ~ret.grid[25][7].filled /\ ~ret.grid[1][1].filled

(***************************************************************************)
(* C8: a cell with 8-bit channels r, g, b is filled iff (r + g + b) / 3 <  *)
(* 128 in exact division, that is iff r + g + b < 384: a sum of 384 is not *)
(* filled, a sum of 383 is.                                                *)
(***************************************************************************)
CellDone == ret.done /\ call.fn = "makeCell"

C8_FilledIffSumBelow384 ==
  CellDone =>
    /\ ret.cell.filled <=> (call.d0 + call.d1 + call.d2 < 384)
    /\ ret.cell.color = <<call.d0, call.d1, call.d2>>

\* Channels 127, 128, 129 (sum 384, brightness exactly 128): not filled.
C8_Witness ==
  /\ CellDone
  /\ <<call.d0, call.d1, call.d2>> = <<127, 128, 129>>
  /\ ~ret.cell.filled

(***************************************************************************)
(* Comparisons of doubles used by C9.                                      *)
(***************************************************************************)
IsZero(x) == x.m = << >>
NonNegative(x) == IsZero(x) \/ ~x.neg
Magnitude(x) == Double(FALSE, x.m, x.e)
Scaled(x, bits) == Double(x.neg, x.m, x.e + bits)      \* x * 2^bits

\* x <= n and x <= n * (1 + 2^-52), for a double x >= 0 and an integer n
AtMostInt(x, n) == CmpDouble(x, FromInt(n)) <= 0
AtMostIntRounded(x, n) ==
  CmpDouble(Scaled(x, 52),
            Double(FALSE, BigMulSmall(BigAdd(BigShl(<<1>>, 52), <<1>>), n), 0)) <= 0

\* |x| <= n * 2^-53
Negligible(x, n) == CmpDouble(Scaled(Magnitude(x), 53), FromInt(n)) <= 0

\* The exact products scaledWidth * h and scaledHeight * w as integers over a common unit.
CrossProducts(p, w, h) ==
  LET lo == Min(p.scaledWidth.e, p.scaledHeight.e)
  IN  [a |-> BigShl(BigMulSmall(p.scaledWidth.m, h), p.scaledWidth.e - lo),
       b |-> BigShl(BigMulSmall(p.scaledHeight.m, w), p.scaledHeight.e - lo)]

BigAbsDiff(a, b) == IF BigCmp(a, b) >= 0 THEN BigSub(a, b) ELSE BigSub(b, a)

PlacementDone == ret.done /\ call.fn = "placement"

(***************************************************************************)
(* C9 as stated: with s = min(columns/width, rows/height) the scaled image *)
(* fits the canvas (width*s <= columns, height*s <= rows), both centering  *)
(* offsets are >= 0, at least one offset is 0, and the scaled width/height *)
(* ratio equals the source ratio.  The code's double arithmetic violates   *)
(* it.                                                                     *)
(***************************************************************************)
C9_ExactFit ==
  PlacementDone =>
    LET p  == ret.placement
        cp == CrossProducts(p, call.width, call.height)
    IN  /\ AtMostInt(p.scaledWidth, call.columns)
        /\ AtMostInt(p.scaledHeight, call.rows)
        /\ NonNegative(p.x) /\ NonNegative(p.y)
        /\ IsZero(p.x) \/ IsZero(p.y)
        /\ BigCmp(cp.a, cp.b) = 0

(***************************************************************************)
(* C9 as amended: the same relations up to the rounding of the two double  *)
(* operations: width*s <= columns*(1 + 2^-52), height*s <= rows*(1 +       *)
(* 2^-52); an offset is never below -columns*2^-53 (x) or -rows*2^-53 (y); *)
(* at least one offset is that close to 0 in magnitude; and the scaled     *)
(* width/height ratio differs from the source ratio by a relative error of *)
(* at most 2^-51.                                                          *)
(***************************************************************************)
C9_FitUpToRounding ==
  PlacementDone =>
    LET p  == ret.placement
        cp == CrossProducts(p, call.width, call.height)
    IN  /\ AtMostIntRounded(p.scaledWidth, call.columns)
        /\ AtMostIntRounded(p.scaledHeight, call.rows)
        /\ NonNegative(p.x) \/ Negligible(p.x, call.columns)
        /\ NonNegative(p.y) \/ Negligible(p.y, call.rows)
        /\ Negligible(p.x, call.columns) \/ Negligible(p.y, call.rows)
        /\ BigCmp(BigShl(BigAbsDiff(cp.a, cp.b), 51), cp.b) <= 0

\* columns = rows = 5 and a 1x147 image: height*s is the double above 5 and the
\* y offset is negative, the x offset positive.
C9_Witness ==
  /\ PlacementDone
  /\ <<call.columns, call.rows, call.width, call.height>> = <<5, 5, 1, 147>>
  /\ ~AtMostInt(ret.placement.scaledHeight, 5)
  /\ ret.placement.y.neg /\ ~IsZero(ret.placement.y)
  /\ ~ret.placement.x.neg /\ ~IsZero(ret.placement.x)

(***************************************************************************)
(* C1: in every reachable state, and whenever generateNonogram runs, the   *)
(* column count and the row count are integers in [5, 50], after any       *)
(* sequence of uploads (the first one sets rows from the aspect ratio) and *)
(* input changes.  The dimensions generateNonogram runs with are those     *)
(* captured by the pending image loads.                                    *)
(***************************************************************************)
InRange(n) == n \in 5..50

C1_DimensionsInRange ==
  /\ InRange(columns) /\ InRange(rows)
  /\ \A k \in 1..Len(loads) : InRange(loads[k].columns) /\ InRange(loads[k].rows)

(***************************************************************************)
(* C6 as stated: whenever the image state is set, the stored grid is       *)
(* non-empty.                                                              *)
(***************************************************************************)
C6_ImageSetImpliesGrid == image # "null" => nonogramGrid # << >>

(***************************************************************************)
(* C6 as amended: a non-empty grid implies that the image is set, and the  *)
(* grid is empty while the image is set only in the window between the     *)
(* first file read completing (setImage) and the first image-load callback *)
(* firing: then the upload's own Image element and the one the effect      *)
(* created are both still loading.                                         *)
(***************************************************************************)
C6_GridEmptyOnlyBeforeFirstLoad ==
  /\ nonogramGrid # << >> => image # "null"
  /\ (image # "null" /\ nonogramGrid = << >>) =>
       /\ \E k \in 1..Len(loads) : loads[k].kind = "upload" /\ loads[k].firstUpload
       /\ \E k \in 1..Len(loads) : loads[k].kind = "effect"

\* The file read has completed, no image-load callback has fired yet.
C6_Witness ==
  /\ image = "strip"
  /\ nonogramGrid = << >>
  /\ readers = << >>
  /\ Len(loads) = 2

(***************************************************************************)
(* C7: once changes have stopped and every pending callback has fired, in  *)
(* any completion order, the retained grid has exactly the current `rows`  *)
(* rows and `columns` columns and was quantized from the current image; a  *)
(* load started for older dimensions that completes later leaves no stale  *)
(* grid.                                                                   *)
(***************************************************************************)
Settled == image # "null" /\ readers = << >> /\ loads = << >>

C7_SettledGridIsCurrent ==
  Settled =>
    /\ Len(nonogramGrid) = rows
    /\ \A y \in 1..Len(nonogramGrid) : Len(nonogramGrid[y]) = columns
    /\ rows > 0 => nonogramGrid = BuildGrid(ImageData(image, columns, rows), columns, rows)

(***************************************************************************)
(* C10: after every completed run of generateNonogram and in every state   *)
(* between runs, the stored row clues are the clues of the stored grid's   *)
(* rows and the stored column clues those of its columns, one sequence per *)
(* row and per column: no clue belongs to an earlier grid.                 *)
(***************************************************************************)
CluesOf(line, n) == IF FilledCount(line, n) = 0 THEN <<0>> ELSE MaximalRuns(line, n)

C10_StoredCluesMatchStoredGrid ==
  /\ Len(rowNumbers) = Len(nonogramGrid)
  /\ Len(columnNumbers) = GridWidth(nonogramGrid)
  /\ \A y \in 1..Len(nonogramGrid) :
       /\ Len(nonogramGrid[y]) = GridWidth(nonogramGrid)
       /\ rowNumbers[y] = CluesOf(RowFills(nonogramGrid, y), GridWidth(nonogramGrid))
  /\ \A x \in 1..GridWidth(nonogramGrid) :
       columnNumbers[x] = CluesOf(ColFills(nonogramGrid, x), Len(nonogramGrid))

\* A second grid has replaced the 15-row one: 5 columns, with a filled cell.
C10_Witness ==
  /\ Len(nonogramGrid) # 0 /\ Len(nonogramGrid) # 15
  /\ GridWidth(nonogramGrid) = 5
  /\ \E x \in 1..5 : columnNumbers[x] # <<0>>
  /\ loads = << >>

====
